---- MODULE Spec2Model ----
(***************************************************************************)
(* Face recognition attendance server (face_recognition_server/main.py).   *)
(*                                                                         *)
(* The model covers the attendance session table, the attendance record    *)
(* table, the background capture tasks (periodic, manual, start-of-class)  *)
(* and the adaptive priority queue with its consumer loops.                *)
(*                                                                         *)
(* Conventions                                                             *)
(*   - times are minutes on the server clock (integers);                   *)
(*   - thresholds are percentages (0.75 is 75) and similarities are        *)
(*     thousandths (0.856 is 856), rounded down;                           *)
(*   - an embedding is a vector of integers, in tenths (0.9 is 9);         *)
(*   - an image is the sequence of the encodings of the faces it shows;    *)
(*   - the capture log table (periodic_captures) is not part of the state: *)
(*     only the outcome of writing to it (success or exception) is.        *)
(***************************************************************************)
EXTENDS Integers, Sequences, FiniteSets, Bags, TLC

(***************************************************************************)
(* Bounds of the model                                                     *)
(***************************************************************************)
\* number of clock ticks
MaxTicks == 1
\* rows the attendance_sessions table may get
MaxSessions == 2
\* background capture tasks started over a run
MaxTasks == 2
\* adaptive jobs enqueued over a run
MaxJobs == 3
\* adaptive jobs enqueued over a run that follows each job's processing
MaxPolicyJobs == 1
\* sessions and background tasks of a run that mixes every capture flow
MaxCaptureSessions == 1
MaxCaptureTasks == 1
\* frames captured, by any flow, over a run that looks at what a frame shows
MaxFrames == 1
\* rows the student_face_embeddings table may get after start-up
MaxEnrollments == 2
\* adaptive requests made in the first phase of one session
MaxWorkerJobs == 5
\* clock ticks over a session that runs into its last phase
MaxPhaseTicks == 2

\* minutes the clock advances per tick
TickMinutes == 45

(***************************************************************************)
(* Data                                                                    *)
(***************************************************************************)
None == "None"

ClassIds == {"c1"}

Students == {"x1", "x2"}

\* class_students rows, in table order
ClassStudents == [c \in ClassIds |-> <<"x1", "x2">>]

\* values a client may send as on_time_limit_minutes (any int is accepted)
OnTimeLimits == {-1, 0}

TimePoints == {k * TickMinutes : k \in 0..MaxTicks}

\* the embeddings the students are enrolled with when the server starts
StoredEmbedding == [x1 |-> <<10, 6>>, x2 |-> <<6, 10>>]

\* face encodings, with their similarities to x1 and to x2
\* 0.856 and 0.520
FaceX1 == <<9, 4>>
\* 0.909 and 0.588
FaceX1b == <<9, 5>>
\* 0.509 and 0.725
FaceX2 == <<3, 7>>
\* 0.224 and 0.366
FaceNobody == <<0, 3>>
\* 0.810 and 0.810
FaceTie == <<8, 8>>
\* 0.755 and 0.853
FaceBoth == <<7, 8>>

ImgEmpty == <<>>
ImgTwoSame == <<FaceX1, FaceX1b>>
ImgMixed == <<FaceNobody, FaceX2>>

Images == {ImgEmpty, ImgTwoSame, ImgMixed}

\* a frame without a face, a frame whose only face is nobody's, and a frame
\* with such a face and a face of x2
ImgNobody == <<FaceNobody>>
FrameImages == {ImgEmpty, ImgNobody, ImgMixed}

\* FACE_THRESHOLD, percent
FACE_THRESHOLD == 70

Phases == {"0-10", "10-20", "20-30", "30-60", "60-90", "90+"}

\* phase strings a client may send: the six phases and an unknown one
ClientPhases == Phases \cup {"other"}

\* seconds a job may take to process
Durations == {4, 6}

\* phases of the jobs the queue is ordered with
OrderPhases == {"0-10", "30-60", "90+"}

(***************************************************************************)
(* Similarity of two embeddings, in fixed point                            *)
(***************************************************************************)
Abs(x) == IF x < 0 THEN -x ELSE x

Max(x, y) == IF x >= y THEN x ELSE y

Min(x, y) == IF x <= y THEN x ELSE y

RECURSIVE Sum(_, _)
Sum(f, n) == IF n = 0 THEN 0 ELSE f[n] + Sum(f, n - 1)

\* the integer part of the square root, by Newton's iteration from x
RECURSIVE sqrt_from(_, _)
sqrt_from(n, x) ==
    LET y == (x + n \div x) \div 2
    IN  IF y >= x THEN x ELSE sqrt_from(n, y)

sqrt(n) == IF n = 0 THEN 0 ELSE sqrt_from(n, n)

\* np.linalg.norm squared, in hundredths
norm2(v) == Sum([i \in 1..Len(v) |-> v[i] * v[i]], Len(v))

\* the weighted combination with the Manhattan score weighted 0.1
calculate_enhanced_similarity_underweighted(embedding1, embedding2) ==
    LET n == Len(embedding1)
        diff == [i \in 1..n |-> embedding1[i] - embedding2[i]]
        euclidean_distance == sqrt(norm2(diff) * 10000)
        euclidean_score == Max(0, 1000 - euclidean_distance)
        dot_product == Sum([i \in 1..n |-> embedding1[i] * embedding2[i]], n)
        norm_a2 == norm2(embedding1)
        norm_b2 == norm2(embedding2)
        cosine_similarity ==
            IF norm_a2 = 0 \/ norm_b2 = 0
            THEN 0
            ELSE (dot_product * 100000) \div sqrt(norm_a2 * norm_b2 * 10000)
        manhattan_distance == Sum([i \in 1..n |-> Abs(diff[i])], n) * 100
        manhattan_score == Max(0, 1000 - manhattan_distance \div n)
        final_score == (euclidean_score * 5 + cosine_similarity * 3
                        + manhattan_score * 1) \div 10
    IN  Max(0, Min(1000, final_score))

calculate_enhanced_similarity(embedding1, embedding2) ==
    LET n == Len(embedding1)
        diff == [i \in 1..n |-> embedding1[i] - embedding2[i]]
        \* thousandths: sqrt(norm2 / 100) * 1000
        euclidean_distance == sqrt(norm2(diff) * 10000)
        euclidean_score == Max(0, 1000 - euclidean_distance)
        dot_product == Sum([i \in 1..n |-> embedding1[i] * embedding2[i]], n)
        norm_a2 == norm2(embedding1)
        norm_b2 == norm2(embedding2)
        cosine_similarity ==
            IF norm_a2 = 0 \/ norm_b2 = 0
            THEN 0
            ELSE (dot_product * 100000) \div sqrt(norm_a2 * norm_b2 * 10000)
        manhattan_distance == Sum([i \in 1..n |-> Abs(diff[i])], n) * 100
        manhattan_score == Max(0, 1000 - manhattan_distance \div n)
        final_score == (euclidean_score * 5 + cosine_similarity * 3
                        + manhattan_score * 2) \div 10
    IN  Max(0, Min(1000, final_score))

\* the uploads of the enrollments: a sequence of images
EnrollUploads == {<<>>, <<ImgEmpty>>, <<ImgTwoSame>>, <<ImgMixed, ImgTwoSame>>}

\* all_encodings: the encoding of the first face of each image that shows one
RECURSIVE all_encodings(_, _)
all_encodings(images, i) ==
    IF i > Len(images)
    THEN <<>>
    ELSE IF images[i] = <<>>
    THEN all_encodings(images, i + 1)
    ELSE <<images[i][1]>> \o all_encodings(images, i + 1)

\* np.mean(all_encodings, axis=0), in tenths, rounded down
average_encoding(encodings) ==
    [d \in 1..Len(encodings[1]) |->
        Sum([k \in 1..Len(encodings) |-> encodings[k][d]], Len(encodings))
            \div Len(encodings)]

\* the embeddings that occur in the model: the stored ones, those the
\* uploads enroll and the encodings of the faces shown to the server
Embeddings ==
    {StoredEmbedding[x] : x \in Students}
        \cup {average_encoding(all_encodings(images, 1)) :
                 images \in {u \in EnrollUploads : all_encodings(u, 1) # <<>>}}
        \cup {FaceX1, FaceX1b, FaceX2, FaceNobody, FaceTie, FaceBoth}

\* calculate_enhanced_similarity on a set of pairs, as an explicit table
RECURSIVE similarity_table(_)
similarity_table(pairs) ==
    IF pairs = {}
    THEN <<>>
    ELSE LET pair == CHOOSE p \in pairs : TRUE
         IN  (pair :> calculate_enhanced_similarity(pair[1], pair[2]))
                 @@ similarity_table(pairs \ {pair})

\* calculate_enhanced_similarity on the embeddings of the model, computed once
Similarity == similarity_table(Embeddings \X Embeddings)

(***************************************************************************)
(* AdaptiveProcessor                                                       *)
(***************************************************************************)
processing_priority(phase) ==
    CASE phase = "0-10" -> 1
      [] phase = "10-20" -> 2
      [] phase = "20-30" -> 3
      [] phase = "30-60" -> 4
      [] phase = "60-90" -> 5
      [] phase = "90+" -> 6

configs(phase) ==
    CASE phase = "0-10" ->
           [model_accuracy |-> "high", face_threshold |-> 75,
            max_processing_time |-> 3, parallel_workers |-> 4,
            cache_results |-> TRUE, priority |-> 1]
      [] phase = "10-20" ->
           [model_accuracy |-> "high", face_threshold |-> 70,
            max_processing_time |-> 4, parallel_workers |-> 3,
            cache_results |-> TRUE, priority |-> 2]
      [] phase = "20-30" ->
           [model_accuracy |-> "medium", face_threshold |-> 70,
            max_processing_time |-> 5, parallel_workers |-> 2,
            cache_results |-> TRUE, priority |-> 3]
      [] phase = "30-60" ->
           [model_accuracy |-> "medium", face_threshold |-> 65,
            max_processing_time |-> 6, parallel_workers |-> 2,
            cache_results |-> FALSE, priority |-> 4]
      [] phase = "60-90" ->
           [model_accuracy |-> "standard", face_threshold |-> 65,
            max_processing_time |-> 8, parallel_workers |-> 1,
            cache_results |-> FALSE, priority |-> 5]
      [] phase = "90+" ->
           [model_accuracy |-> "standard", face_threshold |-> 60,
            max_processing_time |-> 10, parallel_workers |-> 1,
            cache_results |-> FALSE, priority |-> 6]

\* a table whose 20-30 row carries the 30-60 threshold
get_processing_config_shifted(phase) ==
    IF phase = "20-30"
    THEN [configs("20-30") EXCEPT !.face_threshold = 65]
    ELSE IF phase \in Phases THEN configs(phase) ELSE configs("30-60")

\* configs.get(phase, configs['30-60'])
get_processing_config(phase) ==
    IF phase \in Phases THEN configs(phase) ELSE configs("30-60")

(***************************************************************************)
(* heapq on a list of (priority, index, item) tuples; positions from 0     *)
(***************************************************************************)
\* the comparison of tuples pushed without their priority
HeapLessByIndex(a, b) == a.index < b.index

\* tuple comparison: priority, then index (indexes are unique, so the item
\* dictionaries are never compared)
HeapLess(a, b) ==
    \/ a.priority < b.priority
    \/ a.priority = b.priority /\ a.index < b.index

At(heap, pos) == heap[pos + 1]

SetAt(heap, pos, x) == [heap EXCEPT ![pos + 1] = x]

RECURSIVE siftdown(_, _, _, _)
siftdown(heap, startpos, pos, newitem) ==
    IF pos > startpos
    THEN LET parentpos == (pos - 1) \div 2
             parent == At(heap, parentpos)
         IN  IF HeapLess(newitem, parent)
             THEN siftdown(SetAt(heap, pos, parent), startpos, parentpos, newitem)
             ELSE SetAt(heap, pos, newitem)
    ELSE SetAt(heap, pos, newitem)

RECURSIVE siftup_loop(_, _, _, _)
siftup_loop(heap, startpos, pos, newitem) ==
    LET endpos == Len(heap)
        leftpos == 2 * pos + 1
        rightpos == leftpos + 1
        childpos == IF rightpos < endpos
                       /\ ~HeapLess(At(heap, leftpos), At(heap, rightpos))
                    THEN rightpos ELSE leftpos
    IN  IF leftpos < endpos
        THEN siftup_loop(SetAt(heap, pos, At(heap, childpos)), startpos, childpos, newitem)
        ELSE siftdown(SetAt(heap, pos, newitem), startpos, pos, newitem)

siftup(heap, pos) == siftup_loop(heap, pos, pos, At(heap, pos))

heappush(heap, entry) ==
    siftdown(Append(heap, entry), 0, Len(heap), entry)

\* [item, heap]: the popped entry and the heap left
heappop(heap) ==
    LET lastelt == heap[Len(heap)]
        rest == SubSeq(heap, 1, Len(heap) - 1)
    IN  IF rest # <<>>
        THEN [entry |-> rest[1], heap |-> siftup(SetAt(rest, 0, lastelt), 0)]
        ELSE [entry |-> lastelt, heap |-> rest]

(***************************************************************************)
(* State                                                                   *)
(***************************************************************************)
VARIABLES
    now,        \* datetime.now(), minutes
    sessions,   \* attendance_sessions rows; a row's id is its position
    records,    \* attendance_records rows: a bag, the table has no order
    tasks,      \* background tasks added to a sent response and not yet run: a bag
    nTasks,     \* background capture tasks started so far
    queue,      \* adaptive_queue.queue: the heap
    index,      \* adaptive_queue.index
    consumers,  \* process_adaptive_queue loops about to call get
    running,    \* entries dequeued and being processed, one per busy loop
    processed,  \* outcome of every process_adaptive_item call, in order
    response,   \* the last response sent: [op, code]
    embeddings, \* student_face_embeddings rows of each student, oldest first
    face_cache, \* the face_cache dictionary: student_id -> embedding
    trial,      \* a call of a pure function: its arguments and its result
    clients,    \* signaling hub: the connected clients
    rooms,      \* signaling hub: room id -> members, the existing rooms only
    links,      \* signaling hub: the state of each client's peer link
    handled     \* signaling hub: the last message handled and what was sent
                \* for it, [msg, out], out a set of [to, type, from]

vars == <<now, sessions, records, tasks, nTasks, queue, index, consumers,
          running, processed, response, embeddings, face_cache, trial,
          clients, rooms, links, handled>>

\* the signaling hub
hvars == <<clients, rooms, links, handled>>

qvars == <<queue, index, consumers, running, processed>>

\* the attendance tables, the clock and the last response
avars == <<now, sessions, records, tasks, nTasks, response>>

\* the embedding table and its cache
evars == <<embeddings, face_cache>>

\* what the attendance server's handlers and tasks never touch
others == <<trial, hvars>>

NoTrial == [op |-> "none"]

Clients == {"A", "B", "C"}

RoomIds == {"r1", "r2"}

NoMessage == [type |-> "none"]

\* the server with its tables, but for what a specification draws itself
InitServer ==
    /\ now = 0
    /\ sessions = <<>>
    /\ records = EmptyBag
    /\ tasks = EmptyBag
    /\ nTasks = 0
    /\ queue = <<>>
    /\ index = 0
    /\ consumers = 0
    /\ running = {}
    /\ processed = <<>>
    /\ response = [op |-> "none", code |-> 0]
    /\ embeddings = [x \in Students |->
                        <<[embedding |-> StoredEmbedding[x], is_active |-> TRUE]>>]
    /\ face_cache = <<>>
    /\ clients = {}
    /\ rooms = <<>>
    /\ links = [c \in Clients |-> "None"]
    /\ handled = [msg |-> NoMessage, out |-> {}]

Init ==
    /\ InitServer
    /\ trial = NoTrial

SessionIds == 1..Len(sessions)

\* the users table: every student has a row, with an email of their own
EmailOf(student_id) == student_id

(***************************************************************************)
(* Embedding cache and face matching                                       *)
(***************************************************************************)
\* select('face_embedding_json').eq('student_id', ...).eq('is_active', True)
\* .single(): the embedding of the only active row, in a sequence; the empty
\* sequence when single() raises (no active row, or several)
active_embedding(table, student_id) ==
    LET rows == {k \in 1..Len(table[student_id]) : table[student_id][k].is_active}
    IN  IF Cardinality(rows) = 1
        THEN <<table[student_id][CHOOSE k \in rows : TRUE].embedding>>
        ELSE <<>>

\* [value, face_cache]: the embedding in a sequence (empty for None) and the
\* cache after the call
get_face_embedding_cached(cache, table, student_id) ==
    IF student_id \in DOMAIN cache
    THEN [value |-> <<cache[student_id]>>, face_cache |-> cache]
    ELSE LET found == active_embedding(table, student_id)
         IN  IF found # <<>>
             THEN [value |-> found,
                   face_cache |-> [x \in DOMAIN cache \cup {student_id} |->
                                      IF x = student_id THEN found[1] ELSE cache[x]]]
             ELSE [value |-> <<>>, face_cache |-> cache]

\* the loop with similarity >= best_similarity: on a tie the later student wins
RECURSIVE compare_students_last_on_ties(_, _, _, _, _, _, _)
compare_students_last_on_ties(encoding, enrolled_students, i, best_match, best_similarity, threshold, cache) ==
    IF i > Len(enrolled_students)
    THEN [face |-> [student_id |-> best_match, confidence |-> best_similarity,
                    verified |-> best_match # None],
          face_cache |-> cache]
    ELSE LET student_id == enrolled_students[i]
             looked_up == get_face_embedding_cached(cache, embeddings, student_id)
             similarity == Similarity[<<looked_up.value[1], encoding>>]
         IN  IF looked_up.value # <<>>
                /\ similarity > 10 * threshold /\ similarity >= best_similarity
             THEN compare_students_last_on_ties(encoding, enrolled_students, i + 1,
                                                student_id, similarity, threshold,
                                                looked_up.face_cache)
             ELSE compare_students_last_on_ties(encoding, enrolled_students, i + 1,
                                                best_match, best_similarity, threshold,
                                                looked_up.face_cache)

\* the loop over enrolled_students: the best student strictly above the
\* threshold, a later student replacing an earlier one only when strictly
\* better; a student without a stored embedding is passed over.
\* [face, face_cache]
RECURSIVE compare_students(_, _, _, _, _, _, _)
compare_students(encoding, enrolled_students, i, best_match, best_similarity, threshold, cache) ==
    IF i > Len(enrolled_students)
    THEN [face |-> [student_id |-> best_match, confidence |-> best_similarity,
                    verified |-> best_match # None],
          face_cache |-> cache]
    ELSE LET student_id == enrolled_students[i]
             looked_up == get_face_embedding_cached(cache, embeddings, student_id)
             similarity == Similarity[<<looked_up.value[1], encoding>>]
         IN  IF looked_up.value # <<>>
                /\ similarity > 10 * threshold /\ similarity > best_similarity
             THEN compare_students(encoding, enrolled_students, i + 1,
                                   student_id, similarity, threshold,
                                   looked_up.face_cache)
             ELSE compare_students(encoding, enrolled_students, i + 1,
                                   best_match, best_similarity, threshold,
                                   looked_up.face_cache)

\* the loop over the detected faces, in detection order.
\* [faces, face_cache]
RECURSIVE faces_loop(_, _, _, _, _, _)
faces_loop(image_array, enrolled_students, i, detected_faces, threshold, cache) ==
    IF i > Len(image_array)
    THEN [faces |-> detected_faces, face_cache |-> cache]
    ELSE LET compared == compare_students(image_array[i], enrolled_students, 1,
                                          None, 0, threshold, cache)
         IN  faces_loop(image_array, enrolled_students, i + 1,
                        Append(detected_faces, compared.face), threshold,
                        compared.face_cache)

\* one face_info per detected face; no enrolled student or no face location
\* returns the empty list before any embedding is looked up
detect_faces(image_array, enrolled_students, threshold) ==
    IF enrolled_students = <<>> \/ image_array = <<>>
    THEN [faces |-> <<>>, face_cache |-> face_cache]
    ELSE faces_loop(image_array, enrolled_students, 1, <<>>, threshold, face_cache)

process_multiple_faces(image_array, enrolled_students) ==
    detect_faces(image_array, enrolled_students, FACE_THRESHOLD)

\* called by process_adaptive_item, defined nowhere in main.py: the same
\* matching with the job's threshold in place of FACE_THRESHOLD
process_multiple_faces_adaptive(image_array, enrolled_students, threshold) ==
    detect_faces(image_array, enrolled_students, threshold)

get_enrolled_students_for_class(class_id) ==
    IF class_id \in ClassIds THEN ClassStudents[class_id] ELSE <<>>

\* enhanced_cache.get_enrolled_students_cached, defined nowhere in main.py
get_enrolled_students_cached(class_id) == get_enrolled_students_for_class(class_id)

(***************************************************************************)
(* Enrollment.  The handler awaits only the reads of the uploaded files;   *)
(* from the save to the return it runs without another coroutine between.  *)
(***************************************************************************)
\* the users table: the students, and nobody else
KnownUser(student_id) == student_id \in Students

\* a save that leaves the old embeddings active
deactivate_nothing(table, student_id) == table

\* update({'is_active': False}).eq('student_id', student_id)
deactivate(table, student_id) ==
    [table EXCEPT ![student_id] =
        [k \in 1..Len(table[student_id]) |->
            [table[student_id][k] EXCEPT !.is_active = FALSE]]]

\* [success, embeddings]; insert_raises: the insert of the new row raises,
\* after the old rows were deactivated
save_face_embedding_to_db(table, student_id, encoding, insert_raises) ==
    IF ~KnownUser(student_id)
    THEN [success |-> FALSE, embeddings |-> table]
    ELSE LET deactivated == deactivate(table, student_id)
         IN  IF insert_raises
             THEN [success |-> FALSE, embeddings |-> deactivated]
             ELSE [success |-> TRUE,
                   embeddings |->
                       [deactivated EXCEPT ![student_id] =
                           Append(@, [embedding |-> encoding, is_active |-> TRUE])]]

\* del face_cache[student_id], when it is there
cache_without(cache, student_id) ==
    [x \in DOMAIN cache \ {student_id} |-> cache[x]]

\* an enrollment that leaves the cache as it is
clear_cache_for_nobody(cache, student_id) == cache

\* "Clear cache for this student"
clear_cache_for(cache, student_id) == cache_without(cache, student_id)

enroll_face_multiple_images(images, student_id, insert_raises) ==
    LET encodings == all_encodings(images, 1)
        saved == save_face_embedding_to_db(embeddings, student_id,
                                           average_encoding(encodings), insert_raises)
    IN
    /\ IF images = <<>> \/ Len(images) > 5 \/ encodings = <<>>
       THEN /\ response' = [op |-> "enroll", code |-> 400]
            /\ UNCHANGED evars
       ELSE /\ embeddings' = saved.embeddings
            /\ IF saved.success
               THEN /\ face_cache' = clear_cache_for(face_cache, student_id)
                    /\ response' = [op |-> "enroll", code |-> 200]
               ELSE /\ face_cache' = face_cache
                    /\ response' = [op |-> "enroll", code |-> 500]
    /\ UNCHANGED <<now, sessions, records, tasks, nTasks>>
    /\ UNCHANGED <<qvars, others>>

\* DELETE /api/cache/clear
clear_face_cache ==
    /\ face_cache' = <<>>
    /\ response' = [op |-> "clear", code |-> 200]
    /\ UNCHANGED <<now, sessions, records, tasks, nTasks, embeddings>>
    /\ UNCHANGED <<qvars, others>>

(***************************************************************************)
(* Signaling hub: room registry, peer negotiator and router.  None of it   *)
(* is in main.py; it is modelled from the specification of the signaling   *)
(* subsystem.  A handler runs from the receipt of a message to its last    *)
(* send; the messages of one client are handled in receipt order.          *)
(***************************************************************************)
MessageTypes == {"join-room", "leave-room", "offer", "answer", "ice-candidate", "data"}

\* the rooms a client is a member of (none or one)
RoomsOf(registry, clientId) ==
    {r \in DOMAIN registry : clientId \in registry[r]}

\* the registry without the client, the rooms left empty destroyed
without_client(registry, clientId) ==
    LET left == {r \in DOMAIN registry : registry[r] \ {clientId} # {}}
    IN  [r \in left |-> registry[r] \ {clientId}]

\* join(roomId, clientId): adds membership, creating the room if absent; a
\* client has one current room, so it leaves the room it was in
join(registry, roomId, clientId) ==
    LET others_left == without_client(registry, clientId)
    IN  [r \in DOMAIN others_left \cup {roomId} |->
            IF r = roomId
            THEN (IF r \in DOMAIN others_left THEN others_left[r] ELSE {})
                     \cup {clientId}
            ELSE others_left[r]]

\* leave(roomId, clientId): removes membership, destroying the room if empty
leave(registry, roomId, clientId) ==
    IF roomId \in DOMAIN registry /\ clientId \in registry[roomId]
    THEN without_client(registry, clientId)
    ELSE registry

\* the members a broadcast reaches, the excluded client among them
recipients_with_excluded(registry, roomId, excludeClientId) ==
    IF roomId \in DOMAIN registry THEN registry[roomId] ELSE {}

\* the members of the room when the broadcast is sent, but the excluded one
recipients(registry, roomId, excludeClientId) ==
    IF roomId \in DOMAIN registry
    THEN registry[roomId] \ {excludeClientId}
    ELSE {}

\* broadcast(roomId, message, excludeClientId): the sends it makes
broadcast(registry, roomId, type, from, excludeClientId) ==
    {[to |-> c, type |-> type, from |-> from] :
        c \in recipients(registry, roomId, excludeClientId)}

\* a targeted send; nothing is sent to a client that is not connected
send_to(targetId, type, from) ==
    IF targetId \in clients THEN {[to |-> targetId, type |-> type, from |-> from]} ELSE {}

\* to the message's target when it names one, to the room minus the sender
\* otherwise
forward(m) ==
    IF m.targetId # None
    THEN send_to(m.targetId, m.type, m.from)
    ELSE broadcast(rooms, m.roomId, m.type, m.from, m.from)

error_reply(m) == {[to |-> m.from, type |-> "error", from |-> "hub"]}

\* a validation that accepts an empty SDP
valid_sdp_or_empty(sdp) == sdp # None

\* the SDP field is there and is not empty
valid_sdp(sdp) == sdp # None /\ sdp # ""

\* candidates forwarded only once the link has answered an offer
forwards_candidates_once_answered(state) == state \in {"Answered", "Connected"}

\* the link states in which a candidate is forwarded
forwards_candidates(state) == state # "Closed"

\* a link that is never taken for closed
is_closed_never(state) == FALSE

\* Closed is terminal: nothing but a close is handled for a closed link
is_closed(state) == state = "Closed"

\* the link state after an offer was answered: Closed is terminal, a
\* connected link stays connected
after_offer(state) ==
    IF state \in {"Closed", "Connected"} THEN state ELSE "Answered"

Handled(m, out) == handled' = [msg |-> m, out |-> out]

connect(c) ==
    /\ c \notin clients
    /\ links[c] = "None"
    /\ clients' = clients \cup {c}
    /\ Handled([type |-> "connect", from |-> c, roomId |-> None, sdp |-> None,
                targetId |-> None], {})
    /\ UNCHANGED <<rooms, links>>

on_join_room(m) ==
    /\ rooms' = join(rooms, m.roomId, m.from)
    /\ Handled(m, {[to |-> m.from, type |-> "joined_room", from |-> "hub"]}
                     \cup broadcast(rooms', m.roomId, "user_joined", m.from, m.from))
    /\ UNCHANGED <<clients, links>>

on_leave_room(m) ==
    /\ rooms' = leave(rooms, m.roomId, m.from)
    /\ Handled(m, IF rooms' # rooms
                  THEN broadcast(rooms', m.roomId, "user_left", m.from, m.from)
                  ELSE {})
    /\ UNCHANGED <<clients, links>>

\* New -> offer -> validate the SDP -> set remote description -> answer
on_offer(m) ==
    IF valid_sdp(m.sdp)
    THEN /\ links' = [links EXCEPT ![m.from] = after_offer(@)]
         /\ Handled(m, send_to(IF m.targetId # None THEN m.targetId ELSE m.from,
                               "answer", m.from))
         /\ UNCHANGED <<clients, rooms>>
    ELSE /\ Handled(m, error_reply(m))
         /\ UNCHANGED <<clients, rooms, links>>

\* the hub never initiates an offer: an answer is purely forwarded
on_answer(m) ==
    /\ Handled(m, IF valid_sdp(m.sdp) THEN forward(m) ELSE error_reply(m))
    /\ UNCHANGED <<clients, rooms, links>>

on_ice_candidate(m) ==
    /\ Handled(m, IF forwards_candidates(links[m.from]) THEN forward(m)
                  ELSE error_reply(m))
    /\ UNCHANGED <<clients, rooms, links>>

\* a data-channel payload goes to the frame ingest, which is not part of
\* the hub's state
on_data(m) ==
    /\ Handled(m, {})
    /\ UNCHANGED <<clients, rooms, links>>

on_unknown(m) ==
    /\ Handled(m, error_reply(m))
    /\ UNCHANGED <<clients, rooms, links>>

\* explicit close: the link is Closed and the client leaves its room
on_close(m) ==
    /\ links' = [links EXCEPT ![m.from] = "Closed"]
    /\ rooms' = without_client(rooms, m.from)
    /\ Handled(m, IF rooms' # rooms
                  THEN UNION {broadcast(rooms', r, "user_left", m.from, m.from) :
                                 r \in RoomsOf(rooms, m.from)}
                  ELSE {})
    /\ UNCHANGED clients

\* the client's connection is gone: its link is closed, it leaves its room
\* and the client is destroyed
disconnect(c) ==
    LET m == [type |-> "disconnect", from |-> c, roomId |-> None, sdp |-> None,
              targetId |-> None]
    IN
    /\ c \in clients
    /\ clients' = clients \ {c}
    /\ links' = [links EXCEPT ![c] = "Closed"]
    /\ rooms' = without_client(rooms, c)
    /\ Handled(m, UNION {broadcast(rooms', r, "user_left", c, c) :
                            r \in RoomsOf(rooms, c)})

\* the router: a message of a connected client, dispatched by its type; a
\* client whose link is closed gets an error for whatever it sends but close
receive(m) ==
    /\ m.from \in clients
    /\ CASE m.type = "close" -> on_close(m)
         [] m.type # "close" /\ is_closed(links[m.from]) -> on_unknown(m)
         [] m.type = "join-room" /\ ~is_closed(links[m.from]) -> on_join_room(m)
         [] m.type = "leave-room" /\ ~is_closed(links[m.from]) -> on_leave_room(m)
         [] m.type = "offer" /\ ~is_closed(links[m.from]) -> on_offer(m)
         [] m.type = "answer" /\ ~is_closed(links[m.from]) -> on_answer(m)
         [] m.type = "ice-candidate" /\ ~is_closed(links[m.from]) -> on_ice_candidate(m)
         [] m.type = "data" /\ ~is_closed(links[m.from]) -> on_data(m)
         [] OTHER -> on_unknown(m)

\* the external media stack reports the transport of an answered link connected
transport_connected(c) ==
    /\ c \in clients
    /\ links[c] = "Answered"
    /\ links' = [links EXCEPT ![c] = "Connected"]
    /\ Handled([type |-> "connected", from |-> c, roomId |-> None, sdp |-> None,
                targetId |-> None], {})
    /\ UNCHANGED <<clients, rooms>>

\* the select without its status filter
active_session_any_status(session_id) ==
    {sessions[s] : s \in {x \in SessionIds : x = session_id}}

\* select('*').eq('id', session_id).eq('status', 'active'): the rows found
active_session(session_id) ==
    {sessions[s] : s \in {x \in SessionIds : /\ x = session_id
                                             /\ sessions[x].status = "active"}}

\* select('id').eq('session_id', ...).eq('student_email', ...) on a table
existing_record(table, session_id, student_email) ==
    \E row \in BagToSet(table) :
        /\ row.session_id = session_id
        /\ row.student_email = student_email

\* 'present' if capture_dt <= on_time_limit else 'late'
attendance_status(capture_dt, session_data) ==
    LET session_start == session_data.start_time
        on_time_limit == session_start + session_data.on_time_limit_minutes
    IN  IF capture_dt <= on_time_limit THEN "present" ELSE "late"

new_session(class_id, on_time_limit_minutes) ==
    [id |-> Len(sessions) + 1, class_id |-> class_id, start_time |-> now,
     on_time_limit_minutes |-> on_time_limit_minutes, status |-> "active"]

add_task(func, image_array, enrolled_students, session_id, session_data, capture_time) ==
    /\ tasks' = tasks (+) SetToBag({[func |-> func,
                                      image_array |-> image_array,
                                      enrolled_students |-> enrolled_students,
                                      session_id |-> session_id,
                                      session_data |-> session_data,
                                      capture_time |-> capture_time]})
    /\ nTasks' = nTasks + 1

(***************************************************************************)
(* Session endpoints                                                       *)
(***************************************************************************)
create_enhanced_session(class_id, on_time_limit_minutes) ==
    /\ sessions' = Append(sessions, new_session(class_id, on_time_limit_minutes))
    /\ response' = [op |-> "create", code |-> 200]
    /\ UNCHANGED <<now, records, tasks, nTasks>>
    /\ UNCHANGED <<qvars, evars, others>>

end_session(session_id) ==
    /\ IF session_id \in SessionIds
       THEN /\ sessions' = [sessions EXCEPT ![session_id].status = "ended"]
            /\ response' = [op |-> "end", code |-> 200]
       ELSE /\ sessions' = sessions
            /\ response' = [op |-> "end", code |-> 500]
    /\ UNCHANGED <<now, records, tasks, nTasks>>
    /\ UNCHANGED <<qvars, evars, others>>

\* log_ok: whether the insert into periodic_captures succeeds; when it raises
\* the request fails after the session row is written and the task is dropped
start_class_session(class_id, is_teacher, on_time_limit_minutes, initial_image, log_ok) ==
    LET row == new_session(class_id, on_time_limit_minutes)
    IN
    /\ IF ~is_teacher
       THEN /\ response' = [op |-> "start", code |-> 404]
            /\ UNCHANGED <<sessions, tasks, nTasks>>
       ELSE IF \E s \in SessionIds : /\ sessions[s].class_id = class_id
                                     /\ sessions[s].status = "active"
       THEN /\ response' = [op |-> "start", code |-> 400]
            /\ UNCHANGED <<sessions, tasks, nTasks>>
       ELSE /\ sessions' = Append(sessions, row)
            /\ IF log_ok
               THEN /\ add_task("process_start_class_attendance", initial_image,
                                get_enrolled_students_for_class(class_id),
                                row.id, row, row.start_time)
                    /\ response' = [op |-> "start", code |-> 200]
               ELSE /\ UNCHANGED <<tasks, nTasks>>
                    /\ response' = [op |-> "start", code |-> 500]
    /\ UNCHANGED <<now, records>>
    /\ UNCHANGED <<qvars, evars, others>>

(***************************************************************************)
(* Capture endpoints                                                       *)
(***************************************************************************)
process_periodic_attendance(session_id, capture_time, image) ==
    LET session_result == active_session(session_id)
        session_data == CHOOSE row \in session_result : TRUE
        enrolled_students == get_enrolled_students_for_class(session_data.class_id)
    IN
    /\ IF session_result = {}
       THEN /\ response' = [op |-> "periodic", code |-> 404]
            /\ UNCHANGED <<tasks, nTasks>>
       ELSE IF enrolled_students = <<>>
       THEN /\ response' = [op |-> "periodic", code |-> 200]
            /\ UNCHANGED <<tasks, nTasks>>
       ELSE /\ add_task("process_periodic_attendance_background", image,
                        enrolled_students, session_id, session_data, capture_time)
            /\ response' = [op |-> "periodic", code |-> 200]
    /\ UNCHANGED <<now, sessions, records>>
    /\ UNCHANGED <<qvars, evars, others>>

manual_attendance_capture(session_id, image, log_ok) ==
    LET session_result == active_session(session_id)
        session_data == CHOOSE row \in session_result : TRUE
        capture_time == now
    IN
    /\ IF session_result = {}
       THEN /\ response' = [op |-> "manual", code |-> 404]
            /\ UNCHANGED <<tasks, nTasks>>
       ELSE IF log_ok
       THEN /\ add_task("process_manual_attendance_background", image,
                        get_enrolled_students_for_class(session_data.class_id),
                        session_id, session_data, capture_time)
            /\ response' = [op |-> "manual", code |-> 200]
       ELSE /\ response' = [op |-> "manual", code |-> 500]
            /\ UNCHANGED <<tasks, nTasks>>
    /\ UNCHANGED <<now, sessions, records>>
    /\ UNCHANGED <<qvars, evars, others>>

(***************************************************************************)
(* Background capture tasks.  A task has no await in it: it runs from its  *)
(* first line to its last without another coroutine in between.            *)
(* insert_fails: the faces (by position) whose insert raises.              *)
(***************************************************************************)
attendance_record(session_id, student_id, check_in_time, status, confidence, method) ==
    [session_id |-> session_id, student_email |-> EmailOf(student_id),
     student_id |-> student_id, check_in_time |-> check_in_time,
     status |-> status, face_match_score |-> confidence,
     detection_method |-> method]

\* supabase.table('attendance_records').insert(...) inside try/except
insert_record(table, row, raises) ==
    IF raises THEN table ELSE table (+) SetToBag({row})

\* the loop without its test of face_info['verified']
RECURSIVE periodic_loop_unverified(_, _, _, _, _, _, _)
periodic_loop_unverified(detected_faces, i, table, session_id, session_data, capture_time, insert_fails) ==
    IF i > Len(detected_faces)
    THEN table
    ELSE LET face_info == detected_faces[i]
             skip == existing_record(table, session_id, EmailOf(face_info.student_id))
             row == attendance_record(session_id, face_info.student_id, capture_time,
                                      attendance_status(capture_time, session_data),
                                      face_info.confidence, None)
         IN  periodic_loop_unverified(detected_faces, i + 1,
                                      IF skip THEN table
                                      ELSE insert_record(table, row, i \in insert_fails),
                                      session_id, session_data, capture_time, insert_fails)

RECURSIVE periodic_loop(_, _, _, _, _, _, _)
periodic_loop(detected_faces, i, table, session_id, session_data, capture_time, insert_fails) ==
    IF i > Len(detected_faces)
    THEN table
    ELSE LET face_info == detected_faces[i]
             skip == \/ ~face_info.verified
                     \/ existing_record(table, session_id, EmailOf(face_info.student_id))
             row == attendance_record(session_id, face_info.student_id, capture_time,
                                      attendance_status(capture_time, session_data),
                                      face_info.confidence, None)
         IN  periodic_loop(detected_faces, i + 1,
                           IF skip THEN table
                           ELSE insert_record(table, row, i \in insert_fails),
                           session_id, session_data, capture_time, insert_fails)

process_periodic_attendance_background(table, t, insert_fails) ==
    periodic_loop(process_multiple_faces(t.image_array, t.enrolled_students).faces, 1,
                  table, t.session_id, t.session_data, t.capture_time, insert_fails)

RECURSIVE manual_loop(_, _, _, _, _, _, _)
manual_loop(detected_faces, i, table, session_id, session_data, capture_time, insert_fails) ==
    IF i > Len(detected_faces)
    THEN table
    ELSE LET face_info == detected_faces[i]
             skip == \/ ~face_info.verified
                     \/ existing_record(table, session_id, EmailOf(face_info.student_id))
             row == attendance_record(session_id, face_info.student_id, capture_time,
                                      attendance_status(capture_time, session_data),
                                      face_info.confidence, "manual")
         IN  manual_loop(detected_faces, i + 1,
                         IF skip THEN table
                         ELSE insert_record(table, row, i \in insert_fails),
                         session_id, session_data, capture_time, insert_fails)

process_manual_attendance_background(table, t, insert_fails) ==
    manual_loop(process_multiple_faces(t.image_array, t.enrolled_students).faces, 1,
                table, t.session_id, t.session_data, t.capture_time, insert_fails)

\* no look-up of an existing record, and the status is the literal 'present'
RECURSIVE start_class_loop(_, _, _, _, _, _)
start_class_loop(detected_faces, i, table, session_id, capture_time, insert_fails) ==
    IF i > Len(detected_faces)
    THEN table
    ELSE LET face_info == detected_faces[i]
             row == attendance_record(session_id, face_info.student_id, capture_time,
                                      "present", face_info.confidence, "start_class")
         IN  start_class_loop(detected_faces, i + 1,
                              IF ~face_info.verified THEN table
                              ELSE insert_record(table, row, i \in insert_fails),
                              session_id, capture_time, insert_fails)

process_start_class_attendance(table, t, insert_fails) ==
    start_class_loop(process_multiple_faces(t.image_array, t.enrolled_students).faces, 1,
                     table, t.session_id, t.capture_time, insert_fails)

RunBackgroundTask(t, insert_fails) ==
    /\ BagIn(t, tasks)
    /\ tasks' = tasks (-) SetToBag({t})
    /\ records' =
         CASE t.func = "process_periodic_attendance_background" ->
                process_periodic_attendance_background(records, t, insert_fails)
           [] t.func = "process_manual_attendance_background" ->
                process_manual_attendance_background(records, t, insert_fails)
           [] t.func = "process_start_class_attendance" ->
                process_start_class_attendance(records, t, insert_fails)
    /\ face_cache' = process_multiple_faces(t.image_array, t.enrolled_students).face_cache
    /\ UNCHANGED <<now, sessions, nTasks, response, embeddings>>
    /\ UNCHANGED <<qvars, others>>

(***************************************************************************)
(* AdaptivePriorityQueue                                                   *)
(***************************************************************************)
\* a put that pushes (priority, item) tuples, without the sequence number
put_without_sequence(heap, idx, item) ==
    [queue |-> heappush(heap, [priority |-> item.priority, index |-> 0,
                               item |-> item]),
     index |-> idx + 1]

\* a put on a queue of capacity 2: a full queue is left as it is
put_bounded(heap, idx, item) ==
    IF Len(heap) >= 2
    THEN [queue |-> heap, index |-> idx]
    ELSE [queue |-> heappush(heap, [priority |-> item.priority, index |-> idx,
                                    item |-> item]),
          index |-> idx + 1]

\* put: [queue, index] after the push
put(heap, idx, item) ==
    [queue |-> heappush(heap, [priority |-> item.priority, index |-> idx,
                               item |-> item]),
     index |-> idx + 1]

\* a get that returns the smallest entry and leaves it in the queue
get_without_pop(heap) ==
    IF heap # <<>>
    THEN [found |-> TRUE, entry |-> heap[1], queue |-> heap]
    ELSE [found |-> FALSE, entry |-> None, queue |-> heap]

\* get: [found, item, queue]; found is FALSE for the None of an empty queue
get(heap) ==
    IF heap # <<>>
    THEN LET popped == heappop(heap)
         IN  [found |-> TRUE, entry |-> popped.entry, queue |-> popped.heap]
    ELSE [found |-> FALSE, entry |-> None, queue |-> heap]

qsize(heap) == Len(heap)

(***************************************************************************)
(* Adaptive endpoint                                                       *)
(***************************************************************************)
adaptive_item(session_id, session_data, capture_time, phase, image) ==
    LET config == get_processing_config(phase)
    IN  [priority |-> config.priority, image_data |-> image,
         session_id |-> session_id, capture_time |-> capture_time,
         phase |-> phase, config |-> config, session_data |-> session_data]

\* reread_ok: whether decoding the upload a second time, for the quick
\* response, succeeds; when it raises the request fails after the put and the
\* background task is dropped with the response
process_adaptive_attendance(session_id, capture_time, phase, image, reread_ok) ==
    LET session_result == active_session(session_id)
        session_data == CHOOSE row \in session_result : TRUE
        after == put(queue, index,
                     adaptive_item(session_id, session_data, capture_time, phase, image))
    IN
    /\ IF session_result = {}
       THEN /\ response' = [op |-> "adaptive", code |-> 500]
            /\ UNCHANGED <<queue, index, consumers>>
       ELSE /\ queue' = after.queue
            /\ index' = after.index
            /\ IF reread_ok
               THEN /\ consumers' = consumers + 1
                    /\ response' = [op |-> "adaptive", code |-> 200]
               ELSE /\ consumers' = consumers
                    /\ response' = [op |-> "adaptive", code |-> 500]
    /\ UNCHANGED <<now, sessions, records, tasks, nTasks, running, processed>>
    /\ UNCHANGED <<evars, others>>

(***************************************************************************)
(* Consumer loop                                                           *)
(***************************************************************************)
\* a test that saves by phase alone, without the faces-detected clause
save_results_without_faces(phase, config, detected_faces, processing_time) ==
    \/ phase \in {"0-10", "10-20"}
    \/ phase \in {"20-30", "30-60"} /\ processing_time < config.max_processing_time

\* a test that saves the results of every job
save_results_always(phase, config, detected_faces, processing_time) == TRUE

\* the test that decides whether process_adaptive_item saves its results
save_results(phase, config, detected_faces, processing_time) ==
    IF phase \in {"0-10", "10-20"} \/ Len(detected_faces) > 0
    THEN TRUE
    ELSE IF phase \in {"20-30", "30-60"} /\ processing_time < config.max_processing_time
    THEN TRUE
    ELSE FALSE

\* save_adaptive_results is defined nowhere in main.py.  From the
\* specification of the attendance session manager: results for a session
\* that is no longer active are discarded; for each verified face a record
\* is inserted unless one exists for the session and student
RECURSIVE adaptive_loop(_, _, _, _, _, _)
adaptive_loop(detected_faces, i, table, session_id, session_data, capture_time) ==
    IF i > Len(detected_faces)
    THEN table
    ELSE LET face_info == detected_faces[i]
             skip == \/ ~face_info.verified
                     \/ existing_record(table, session_id, EmailOf(face_info.student_id))
             row == attendance_record(session_id, face_info.student_id, capture_time,
                                      attendance_status(capture_time, session_data),
                                      face_info.confidence, "adaptive")
         IN  adaptive_loop(detected_faces, i + 1,
                           IF skip THEN table ELSE table (+) SetToBag({row}),
                           session_id, session_data, capture_time)

save_adaptive_results(table, item, detected_faces) ==
    IF active_session(item.session_id) = {}
    THEN table
    ELSE adaptive_loop(detected_faces, 1, table, item.session_id,
                       item.session_data, item.capture_time)

\* the phase of a session that has run for elapsed_minutes
phase_of_elapsed(elapsed_minutes) ==
    IF elapsed_minutes < 10 THEN "0-10"
    ELSE IF elapsed_minutes < 20 THEN "10-20"
    ELSE IF elapsed_minutes < 30 THEN "20-30"
    ELSE IF elapsed_minutes < 60 THEN "30-60"
    ELSE IF elapsed_minutes < 90 THEN "60-90"
    ELSE "90+"

\* a threshold resolved when the job is dequeued, from the session's phase then
item_threshold_at_dequeue(item) ==
    get_processing_config(
        phase_of_elapsed(now - item.session_data.start_time)).face_threshold

\* the threshold process_adaptive_item matches with
item_threshold(item) == item.config.face_threshold

\* while True: item = await adaptive_queue.get(); if not item: break
ConsumerGet ==
    LET got == get(queue)
    IN
    /\ consumers > 0
    /\ consumers' = consumers - 1
    /\ queue' = got.queue
    /\ running' = IF got.found THEN running \cup {got.entry} ELSE running
    /\ UNCHANGED <<now, sessions, records, tasks, nTasks, index, processed, response>>
    /\ UNCHANGED <<evars, others>>

\* a loop without the try/except: the exception of an item ends the loop
loops_after_item_uncaught(n, raises) == IF raises THEN n ELSE n + 1

\* the loops about to call get once a loop is done with its item: the
\* except clause logs the exception and the while loop goes round
loops_after_item(n, raises) == n + 1

\* await process_adaptive_item(item) inside try/except; raises: the item
\* fails before anything is saved, the loop logs it and goes on
ConsumerProcess(entry, processing_time, raises) ==
    LET item == entry.item
        threshold == item_threshold(item)
        matching ==
            process_multiple_faces_adaptive(
                item.image_data,
                get_enrolled_students_cached(item.session_data.class_id),
                threshold)
        detected_faces == matching.faces
        saved == save_results(item.phase, item.config, detected_faces, processing_time)
    IN
    /\ entry \in running
    /\ running' = running \ {entry}
    /\ consumers' = loops_after_item(consumers, raises)
    /\ IF raises
       THEN /\ records' = records
            /\ face_cache' = face_cache
            /\ processed' = Append(processed,
                   [entry |-> entry, outcome |-> "error", at |-> now,
                    threshold |-> threshold, faces |-> 0, matched |-> 0,
                    processing_time |-> 0, saved |-> FALSE])
       ELSE /\ records' = IF saved
                          THEN save_adaptive_results(records, item, detected_faces)
                          ELSE records
            /\ face_cache' = matching.face_cache
            /\ processed' = Append(processed,
                   [entry |-> entry, outcome |-> "done", at |-> now,
                    threshold |-> threshold, faces |-> Len(detected_faces),
                    matched |-> Cardinality({i \in 1..Len(detected_faces) :
                                                detected_faces[i].verified}),
                    processing_time |-> processing_time, saved |-> saved])
    /\ UNCHANGED <<now, sessions, tasks, nTasks, queue, index, response, embeddings>>
    /\ UNCHANGED others

(***************************************************************************)
(* Clock                                                                   *)
(***************************************************************************)
Tick ==
    /\ now < MaxTicks * TickMinutes
    /\ now' = now + TickMinutes
    /\ UNCHANGED <<sessions, records, tasks, nTasks, response>>
    /\ UNCHANGED <<qvars, evars, others>>

(***************************************************************************)
(* Specifications                                                          *)
(***************************************************************************)
CreateStep ==
    /\ Len(sessions) < MaxSessions
    /\ \E c \in ClassIds, l \in OnTimeLimits : create_enhanced_session(c, l)

StartClassStep ==
    /\ Len(sessions) < MaxSessions
    /\ nTasks < MaxTasks
    /\ \E c \in ClassIds, is_teacher \in BOOLEAN, l \in OnTimeLimits,
          img \in Images, log_ok \in BOOLEAN :
          start_class_session(c, is_teacher, l, img, log_ok)

EndStep == \E s \in 1..MaxSessions : end_session(s)

PeriodicStep ==
    /\ nTasks < MaxTasks
    /\ \E s \in 1..MaxSessions, ct \in TimePoints, img \in Images :
          process_periodic_attendance(s, ct, img)

ManualStep ==
    /\ nTasks < MaxTasks
    /\ \E s \in 1..MaxSessions, img \in Images, log_ok \in BOOLEAN :
          manual_attendance_capture(s, img, log_ok)

BackgroundStep ==
    \E t \in BagToSet(tasks) :
        \E insert_fails \in SUBSET (1..Len(t.image_array)) :
            RunBackgroundTask(t, insert_fails)

\* the session endpoints, the periodic, manual and start-of-class captures
\* and their background tasks
NextAttendance ==
    \/ Tick
    \/ CreateStep
    \/ StartClassStep
    \/ EndStep
    \/ PeriodicStep
    \/ ManualStep
    \/ BackgroundStep

SpecAttendance == Init /\ [][NextAttendance]_vars

\* the queue discipline: one session, jobs that differ in phase only
QueueCreateStep ==
    /\ sessions = <<>>
    /\ create_enhanced_session("c1", 0)

QueueAdaptiveStep ==
    /\ index < MaxJobs
    /\ \E ph \in OrderPhases, reread_ok \in BOOLEAN :
          process_adaptive_attendance(1, now, ph, ImgEmpty, reread_ok)

\* jobs that take 4 seconds and do not fail
QueueProcessStep ==
    \E e \in running : ConsumerProcess(e, 4, FALSE)

NextQueue ==
    \/ QueueCreateStep
    \/ QueueAdaptiveStep
    \/ ConsumerGet
    \/ QueueProcessStep

SpecQueue == Init /\ [][NextQueue]_vars

\* the consumer loops: requests that start a loop and requests that fail
\* after the put, jobs that fail and jobs that do not
LoopPhases == {"0-10", "60-90"}

LoopAdaptiveStep ==
    /\ index < MaxJobs
    /\ \E ph \in LoopPhases, reread_ok \in BOOLEAN :
          process_adaptive_attendance(1, now, ph, ImgEmpty, reread_ok)

LoopProcessStep ==
    \E e \in running, raises \in BOOLEAN : ConsumerProcess(e, 4, raises)

NextLoops ==
    \/ QueueCreateStep
    \/ LoopAdaptiveStep
    \/ ConsumerGet
    \/ LoopProcessStep

SpecLoops == Init /\ [][NextLoops]_vars

\* the event loop runs every task that can run: a loop that was started
\* calls get, and a job that was dequeued is processed to its end
SpecLoopsFair ==
    /\ SpecLoops
    /\ WF_vars(ConsumerGet)
    /\ WF_vars(LoopProcessStep)

\* requests of the first ten minutes of a session, each starting a loop
WorkerAdaptiveStep ==
    /\ index < MaxWorkerJobs
    /\ \E reread_ok \in BOOLEAN :
          process_adaptive_attendance(1, now, "0-10", ImgEmpty, reread_ok)

NextWorkers ==
    \/ QueueCreateStep
    \/ WorkerAdaptiveStep
    \/ ConsumerGet
    \/ QueueProcessStep

SpecWorkers == Init /\ [][NextWorkers]_vars

\* the processing of a job: every phase, images with and without faces, time
\* passing and the session ending while the job waits
PolicyAdaptiveStep ==
    /\ index < MaxPolicyJobs
    /\ \E ph \in ClientPhases, img \in {ImgEmpty, ImgMixed}, reread_ok \in BOOLEAN :
          process_adaptive_attendance(1, now, ph, img, reread_ok)

PolicyProcessStep ==
    \E e \in running, d \in Durations, raises \in BOOLEAN :
        ConsumerProcess(e, d, raises)

NextPolicy ==
    \/ Tick
    \/ QueueCreateStep
    \/ end_session(1)
    \/ PolicyAdaptiveStep
    \/ ConsumerGet
    \/ PolicyProcessStep

SpecPolicy == Init /\ [][NextPolicy]_vars

\* a session that runs for ninety minutes and more, and requests that name
\* any phase at any time
PhaseTick ==
    /\ now < MaxPhaseTicks * TickMinutes
    /\ now' = now + TickMinutes
    /\ UNCHANGED <<sessions, records, tasks, nTasks, response>>
    /\ UNCHANGED <<qvars, evars, others>>

NextPhases ==
    \/ PhaseTick
    \/ QueueCreateStep
    \/ PolicyAdaptiveStep
    \/ ConsumerGet
    \/ QueueProcessStep

SpecPhases == Init /\ [][NextPhases]_vars

\* every capture flow against sessions that are created and ended, one
\* image and one phase
CaptureSessionStep ==
    /\ Len(sessions) < MaxCaptureSessions
    /\ \/ create_enhanced_session("c1", 0)
       \/ /\ nTasks < MaxCaptureTasks
          /\ start_class_session("c1", TRUE, 0, ImgTwoSame, TRUE)

CaptureEndStep == \E s \in 1..MaxCaptureSessions : end_session(s)

CaptureRequestStep ==
    \E s \in 1..MaxCaptureSessions :
        \/ /\ nTasks < MaxCaptureTasks
           /\ process_periodic_attendance(s, now, ImgTwoSame)
        \/ /\ nTasks < MaxCaptureTasks
           /\ \E log_ok \in BOOLEAN : manual_attendance_capture(s, ImgTwoSame, log_ok)
        \/ /\ index < MaxPolicyJobs
           /\ \E reread_ok \in BOOLEAN :
                 process_adaptive_attendance(s, now, "0-10", ImgTwoSame, reread_ok)

NextCapture ==
    \/ CaptureSessionStep
    \/ CaptureEndStep
    \/ CaptureRequestStep
    \/ BackgroundStep
    \/ ConsumerGet
    \/ QueueProcessStep

SpecCapture == Init /\ [][NextCapture]_vars

\* every capture flow on one session, with frames that show no face, an
\* unknown face, or an unknown face and a known one
FrameSessionStep ==
    /\ sessions = <<>>
    /\ \/ create_enhanced_session("c1", 0)
       \/ /\ nTasks + index < MaxFrames
          /\ \E img \in FrameImages : start_class_session("c1", TRUE, 0, img, TRUE)

FrameCaptureStep ==
    /\ nTasks + index < MaxFrames
    /\ \E img \in FrameImages :
          \/ process_periodic_attendance(1, now, img)
          \/ manual_attendance_capture(1, img, TRUE)
          \/ \E ph \in ClientPhases : process_adaptive_attendance(1, now, ph, img, TRUE)

NextFrames ==
    \/ FrameSessionStep
    \/ FrameCaptureStep
    \/ BackgroundStep
    \/ ConsumerGet
    \/ PolicyProcessStep

SpecFrames == Init /\ [][NextFrames]_vars

\* process_multiple_faces on frames of one or two faces, for every order of
\* the enrolled students
Faces == {FaceX1, FaceX1b, FaceX2, FaceNobody, FaceTie, FaceBoth}

MatchImages == {<<f>> : f \in Faces} \cup {<<f, g>> : f \in Faces, g \in Faces}

EnrollmentOrders == {<<"x1", "x2">>, <<"x2", "x1">>, <<"x1">>, <<"x2">>}

InitMatch ==
    /\ InitServer
    /\ trial \in [op : {"match"}, image_array : MatchImages,
                   enrolled_students : EnrollmentOrders,
                   done : {FALSE}, result : {<<>>}]

MatchStep ==
    LET matching == process_multiple_faces(trial.image_array, trial.enrolled_students)
    IN
    /\ trial.op = "match"
    /\ ~trial.done
    /\ trial' = [trial EXCEPT !.done = TRUE, !.result = matching.faces]
    /\ face_cache' = matching.face_cache
    /\ UNCHANGED <<avars, qvars, embeddings, hvars>>

NextMatch == MatchStep

SpecMatch == InitMatch /\ [][NextMatch]_vars

\* enrollments, cache clears and matching passes that look the enrolled
\* students' embeddings up
EmbeddingRows ==
    Sum([k \in 1..Len(ClassStudents["c1"]) |-> Len(embeddings[ClassStudents["c1"][k]])],
        Len(ClassStudents["c1"]))

EnrollStep ==
    /\ EmbeddingRows < Cardinality(Students) + MaxEnrollments
    /\ \E images \in EnrollUploads, student_id \in Students \cup {"x9"},
          insert_raises \in BOOLEAN :
          enroll_face_multiple_images(images, student_id, insert_raises)

\* a capture task or job reaching process_multiple_faces
LookupStep ==
    /\ face_cache' = process_multiple_faces(<<FaceX1>>, ClassStudents["c1"]).face_cache
    /\ UNCHANGED <<avars, qvars, embeddings, others>>

NextEnroll ==
    \/ EnrollStep
    \/ LookupStep
    \/ clear_face_cache

SpecEnroll == Init /\ [][NextEnroll]_vars

\* calculate_enhanced_similarity on pairs of vectors, the zero vector and
\* vectors with negative components among them
TrialComponents == {-10, 0, 6, 10}

TrialVectors == {<<a, b>> : a \in TrialComponents, b \in TrialComponents}

InitSimilarity ==
    /\ InitServer
    /\ trial \in [op : {"similarity"}, embedding1 : TrialVectors,
                   embedding2 : TrialVectors, done : {FALSE}, result : {0}]

SimilarityStep ==
    /\ trial.op = "similarity"
    /\ ~trial.done
    /\ trial' = [trial EXCEPT
                    !.done = TRUE,
                    !.result = calculate_enhanced_similarity(trial.embedding1,
                                                             trial.embedding2)]
    /\ UNCHANGED <<avars, qvars, evars, hvars>>

NextSimilarity == SimilarityStep

SpecSimilarity == InitSimilarity /\ [][NextSimilarity]_vars

\* the signaling hub with three clients and two rooms
HubMessages ==
    [type : {"join-room", "leave-room"}, from : Clients, roomId : RoomIds,
     sdp : {None}, targetId : {None}]
    \cup [type : {"offer"}, from : Clients, roomId : {"r1"},
          sdp : {None, "", "v=0"}, targetId : {None}]
    \cup [type : {"answer", "ice-candidate"}, from : Clients, roomId : {"r1"},
          sdp : {"v=0"}, targetId : {None, "B"}]
    \cup [type : {"close", "data", "ping"}, from : Clients, roomId : {None},
          sdp : {None}, targetId : {None}]

ConnectStep ==
    /\ \E c \in Clients : connect(c)
    /\ UNCHANGED <<avars, qvars, evars, trial>>

ReceiveStep ==
    /\ \E m \in HubMessages : receive(m)
    /\ UNCHANGED <<avars, qvars, evars, trial>>

DisconnectStep ==
    /\ \E c \in Clients : disconnect(c)
    /\ UNCHANGED <<avars, qvars, evars, trial>>

TransportStep ==
    /\ \E c \in Clients : transport_connected(c)
    /\ UNCHANGED <<avars, qvars, evars, trial>>

NextHub ==
    \/ ConnectStep
    \/ ReceiveStep
    \/ DisconnectStep
    \/ TransportStep

SpecHub == Init /\ [][NextHub]_vars

\* every endpoint and every background step
AdaptiveStep ==
    /\ index < MaxJobs
    /\ \E s \in 1..MaxSessions, ph \in ClientPhases, img \in Images,
          reread_ok \in BOOLEAN :
          process_adaptive_attendance(s, now, ph, img, reread_ok)

Next ==
    \/ NextAttendance
    \/ AdaptiveStep
    \/ ConsumerGet
    \/ PolicyProcessStep

Spec == Init /\ [][Next]_vars

(***************************************************************************)
(* Attendance records                                                      *)
(***************************************************************************)
SamePair(r1, r2) ==
    /\ r1.session_id = r2.session_id
    /\ r1.student_id = r2.student_id

Rows == BagToSet(records)

\* C1: in every reachable state there is at most one attendance record for
\* each (session, student) pair, whatever capture jobs have run.
C1_AtMostOneRecordPerPair ==
    \A r1, r2 \in Rows :
        SamePair(r1, r2) => r1 = r2 /\ CopiesIn(r1, records) = 1

\* C2: every step leaves the rows of attendance_records as they were and adds
\* no row for a (session, student) pair that already has one, the rows added
\* earlier in the same step included.
C2_RecordedOnceNeverChanged ==
    [][/\ \A r \in Rows : CopiesIn(r, records') >= CopiesIn(r, records)
       /\ \A r \in Rows' :
             CopiesIn(r, records') > CopiesIn(r, records) =>
                /\ CopiesIn(r, records') = 1
                /\ \A o \in Rows' : SamePair(o, r) => o = r]_vars

\* C3: every attendance record is 'present' exactly when its check-in time is
\* at or before its session's start time plus on-time limit, 'late' otherwise.
C3_StatusByDeadline ==
    \A r \in Rows :
        LET session == sessions[r.session_id]
            deadline == session.start_time + session.on_time_limit_minutes
        IN  /\ r.status \in {"present", "late"}
            /\ r.status = "present" <=> r.check_in_time <= deadline

(***************************************************************************)
(* Queue discipline                                                        *)
(***************************************************************************)
QueueEntries == {queue[k] : k \in 1..Len(queue)}

\* the entries a step dequeues
Dequeued == running' \ running

\* C4: whenever get returns a job, no job of strictly smaller rank is left in
\* the queue; and a step that enqueues a job leaves the running jobs and the
\* processed jobs as they were.
C4_LowestRankFirst ==
    [][/\ \A e \in Dequeued : \A q \in QueueEntries' : ~(q.priority < e.priority)
       /\ index' # index => running' = running /\ processed' = processed]_vars

\* a rank-4 job enqueued first is running, having been dequeued before the
\* rank-1 job arrived, which in turn was dequeued ahead of an older rank-4 job
C4_Witness ==
    \E e4 \in running, e1 \in running, q \in QueueEntries :
        /\ e4.priority = 4 /\ e1.priority = 1 /\ q.priority = 4
        /\ e4.index < q.index /\ q.index < e1.index

\* C5: every put stamps the job with the next sequence number, and whenever
\* get returns a job every job of the same rank left in the queue carries a
\* larger sequence number, that is, was enqueued later.
C5_FifoWithinRank ==
    [][/\ \A e \in Dequeued :
             \A q \in QueueEntries' : q.priority = e.priority => e.index < q.index
       /\ \A q \in QueueEntries' \ QueueEntries :
             /\ q.index = index
             /\ index' = index + 1
             /\ \A o \in QueueEntries \cup running : o.index < q.index]_vars

\* a job was dequeued ahead of a younger job of its rank, a job of a lower
\* priority having been enqueued between the two
C5_Witness ==
    \E e \in running, o \in QueueEntries, q \in QueueEntries :
        /\ q.priority = e.priority /\ o.priority > e.priority
        /\ e.index < o.index /\ o.index < q.index

\* a capacity smaller than the number of enqueue requests made
QueueCapacity == MaxJobs - 1

Processed == {processed[k] : k \in 1..Len(processed)}

Done == {p \in Processed : p.outcome = "done"}

\* C6: a job enqueued with phase 0-10 is matched with the threshold 0.75,
\* however long it waited and whatever the session's phase when it is
\* processed; and every job is matched with the threshold it was given when
\* it was enqueued.
C6_PhaseFixedAtEnqueue ==
    \A p \in Processed :
        /\ p.entry.item.phase = "0-10" => p.threshold = 75
        /\ p.threshold = p.entry.item.config.face_threshold

\* a 0-10 job processed 10 minutes or more after it was enqueued, when the
\* session is in another phase
C6_Witness ==
    \E p \in Done :
        /\ p.entry.item.phase = "0-10"
        /\ p.at - p.entry.item.capture_time >= 10
        /\ phase_of_elapsed(p.at - p.entry.item.session_data.start_time) # "0-10"
        /\ p.threshold = 75

\* C7 as stated, in its weakest reading: 0-10, 10-20 and 20-30 always
\* persist; 30-60 and 60-90 persist only within the budget; 90+ persists only
\* if a match was found.
C7_PersistByPhaseTable ==
    \A p \in Done :
        LET phase == p.entry.item.phase
            budget == p.entry.item.config.max_processing_time
        IN  /\ phase \in {"0-10", "10-20", "20-30"} => p.saved
            /\ phase \in {"30-60", "60-90"} /\ p.saved => p.processing_time <= budget
            /\ phase = "90+" /\ p.saved => p.matched > 0

\* C7 as amended: a processed job's result is persisted exactly when its
\* phase is 0-10 or 10-20, or a face was detected, or its phase is 20-30 or
\* 30-60 and processing took less than the budget (5 and 6 seconds).
C7_PersistRule ==
    \A p \in Done :
        LET phase == p.entry.item.phase
        IN  p.saved <=> \/ phase \in {"0-10", "10-20"}
                        \/ p.faces > 0
                        \/ phase = "20-30" /\ p.processing_time < 5
                        \/ phase = "30-60" /\ p.processing_time < 6

\* a 20-30 job without faces that ran over its budget and was not persisted
C7_Witness ==
    \E p \in Done :
        /\ p.entry.item.phase = "20-30"
        /\ p.faces = 0
        /\ p.processing_time >= 5
        /\ ~p.saved

\* (priority, threshold, budget seconds, workers) of the six phases
PhaseTable(phase) ==
    CASE phase = "0-10" -> <<1, 75, 3, 4>>
      [] phase = "10-20" -> <<2, 70, 4, 3>>
      [] phase = "20-30" -> <<3, 70, 5, 2>>
      [] phase = "30-60" -> <<4, 65, 6, 2>>
      [] phase = "60-90" -> <<5, 65, 8, 1>>
      [] phase = "90+" -> <<6, 60, 10, 1>>

\* C8: every job of one of the six phases carries the configuration of its
\* phase's row of the table, its rank is the rank the processor's priority
\* table gives the phase, and the look-up returns that row for every phase.
C8_ConfigTable ==
    /\ \A e \in QueueEntries \cup running :
          e.item.phase \in Phases =>
             /\ <<e.item.config.priority, e.item.config.face_threshold,
                  e.item.config.max_processing_time,
                  e.item.config.parallel_workers>> = PhaseTable(e.item.phase)
             /\ e.priority = processing_priority(e.item.phase)
             /\ e.item.priority = e.item.config.priority
    /\ queue # <<>> =>
          \A phase \in Phases :
             LET config == get_processing_config(phase)
             IN  /\ <<config.priority, config.face_threshold,
                      config.max_processing_time, config.parallel_workers>>
                       = PhaseTable(phase)
                 /\ config.priority = processing_priority(phase)

\* a 90+ job waits in the queue with rank 6 and threshold 0.60
C8_Witness ==
    \E e \in QueueEntries :
        /\ e.item.phase = "90+"
        /\ e.priority = 6
        /\ e.item.config.face_threshold = 60

(***************************************************************************)
(* Captures for sessions that are not active                               *)
(***************************************************************************)
NotActive(s) == s \notin SessionIds \/ sessions[s].status # "active"

\* a capture request of any of the three kinds for session s
CaptureRequest(s) ==
    \/ process_periodic_attendance(s, now, ImgTwoSame)
    \/ \E log_ok \in BOOLEAN : manual_attendance_capture(s, ImgTwoSame, log_ok)
    \/ \E reread_ok \in BOOLEAN :
          process_adaptive_attendance(s, now, "0-10", ImgTwoSame, reread_ok)

\* C10: a periodic, manual or adaptive capture request for a session that is
\* not active is answered by an error and changes neither the queue, nor the
\* consumers, nor the background tasks, nor the attendance records; and no
\* step changes the status of an ended session.
C10_InactiveSessionRejected ==
    [][/\ \A s \in 1..MaxCaptureSessions :
             NotActive(s) /\ CaptureRequest(s) =>
                /\ response'.code \in {404, 500}
                /\ UNCHANGED <<queue, index, consumers, running, processed>>
                /\ UNCHANGED <<tasks, nTasks, records, sessions>>
       /\ \A s \in SessionIds :
             sessions[s].status = "ended" =>
                s \in 1..Len(sessions') /\ sessions'[s] = sessions[s]]_vars

\* every session has been ended, and the last request, a capture, was refused
C10_Witness ==
    /\ Len(sessions) = MaxCaptureSessions
    /\ \A s \in SessionIds : sessions[s].status = "ended"
    /\ response.op \in {"periodic", "manual", "adaptive"}
    /\ response.code \in {404, 500}
    /\ nTasks < MaxCaptureTasks
    /\ index < MaxPolicyJobs

(***************************************************************************)
(* Jobs in flight when their session ends                                  *)
(***************************************************************************)
\* C11: once a session's status is 'ended' no step adds an attendance record
\* for that session: the tasks and jobs in flight for it finish without one.
C11_NoRecordAfterEnd ==
    [][\A s \in SessionIds :
          sessions[s].status = "ended" =>
             \A r \in BagToSet(records') :
                r.session_id = s => CopiesIn(r, records') = CopiesIn(r, records)]_vars

(***************************************************************************)
(* What a frame shows                                                      *)
(***************************************************************************)
\* the background tasks a step runs
TasksRun == {t \in BagToSet(tasks) : CopiesIn(t, tasks') < CopiesIn(t, tasks)}

\* the jobs whose processing a step ends, with their outcome
JobsEnded ==
    IF Len(processed') > Len(processed) THEN {processed'[Len(processed')]} ELSE {}

StoredSimilarity(student_id, encoding) ==
    LET stored == active_embedding(embeddings, student_id)
    IN  IF stored = <<>> THEN 0
        ELSE calculate_enhanced_similarity(stored[1], encoding)

\* no enrolled student scores above the threshold (a percentage) for the face
Unmatched(encoding, enrolled_students, threshold) ==
    \A k \in 1..Len(enrolled_students) :
        StoredSimilarity(enrolled_students[k], encoding) <= 10 * threshold

\* a step that processed image_array with a threshold treats every unmatched
\* face as absent and adds records only for students a face matched
OnlyMatchesRecorded(image_array, enrolled_students, threshold, detected_faces) ==
    LET matched == {i \in 1..Len(image_array) :
                       ~Unmatched(image_array[i], enrolled_students, threshold)}
    IN  /\ \A i \in 1..Len(detected_faces) :
              i \notin matched =>
                 /\ detected_faces[i].student_id = None
                 /\ ~detected_faces[i].verified
        /\ BagCardinality(records') - BagCardinality(records) <= Cardinality(matched)
        /\ \A r \in BagToSet(records') :
              CopiesIn(r, records') > CopiesIn(r, records) =>
                 \E i \in matched :
                    /\ r.student_id \in Students
                    /\ r.face_match_score = StoredSimilarity(r.student_id, image_array[i])
                    /\ r.face_match_score > 10 * threshold

\* C13: a face for which no enrolled student scores above the threshold is
\* reported absent (no student, verified false), and a step adds attendance
\* records only for students matched by a face of the frame it processed, at
\* most one per matched face; this holds for the periodic, manual,
\* start-of-class and adaptive flows.
C13_UnmatchedNeverRecorded ==
    [][/\ \A t \in TasksRun :
             OnlyMatchesRecorded(
                 t.image_array, t.enrolled_students, FACE_THRESHOLD,
                 process_multiple_faces(t.image_array, t.enrolled_students).faces)
       /\ \A p \in JobsEnded :
             LET item == p.entry.item
                 enrolled_students == get_enrolled_students_cached(item.session_data.class_id)
             IN  OnlyMatchesRecorded(
                     item.image_data, enrolled_students, item.config.face_threshold,
                     process_multiple_faces_adaptive(item.image_data, enrolled_students,
                                                     item.config.face_threshold).faces)]_vars

\* the task of a frame with an unknown face and a face of x2 has run: the
\* only record is the one of x2
C13_Witness ==
    /\ nTasks = 1
    /\ tasks = EmptyBag
    /\ BagCardinality(records) = 1
    /\ \E r \in Rows : r.student_id = "x2" /\ r.face_match_score = 725

(***************************************************************************)
(* The match of a face                                                     *)
(***************************************************************************)
\* the positions, in enrollment order, of the students scoring above the
\* threshold for a face, and those among them with the greatest score
AboveThreshold(encoding, enrolled_students) ==
    {k \in 1..Len(enrolled_students) :
        StoredSimilarity(enrolled_students[k], encoding) > 10 * FACE_THRESHOLD}

Greatest(encoding, enrolled_students) ==
    {k \in AboveThreshold(encoding, enrolled_students) :
        \A j \in AboveThreshold(encoding, enrolled_students) :
            StoredSimilarity(enrolled_students[j], encoding)
                <= StoredSimilarity(enrolled_students[k], encoding)}

\* C14: process_multiple_faces gives one result per face; a face's match is
\* the student with the greatest similarity among those above the threshold,
\* the earliest of them in enrollment order when several have that score,
\* with that score as confidence; without a student above the threshold the
\* face has no match.
C14_BestMatchFirstOnTies ==
    trial.op = "match" /\ trial.done =>
        /\ Len(trial.result) = Len(trial.image_array)
        /\ \A i \in 1..Len(trial.result) :
              LET encoding == trial.image_array[i]
                  enrolled_students == trial.enrolled_students
                  greatest == Greatest(encoding, enrolled_students)
                  first == CHOOSE k \in greatest : \A j \in greatest : k <= j
              IN  IF greatest = {}
                  THEN /\ trial.result[i].student_id = None
                       /\ ~trial.result[i].verified
                  ELSE /\ trial.result[i].student_id = enrolled_students[first]
                       /\ trial.result[i].confidence
                             = StoredSimilarity(enrolled_students[first], encoding)
                       /\ trial.result[i].verified

\* x2 is enrolled before x1, both score 0.810 for the face, and x2 is the match
C14_Witness ==
    /\ trial.op = "match" /\ trial.done
    /\ trial.enrolled_students = <<"x2", "x1">>
    /\ trial.image_array = <<FaceTie>>
    /\ StoredSimilarity("x1", FaceTie) = StoredSimilarity("x2", FaceTie)
    /\ trial.result[1].student_id = "x2"
    /\ trial.result[1].confidence = 810

(***************************************************************************)
(* The embedding cache                                                     *)
(***************************************************************************)
LastRow(table, student_id) == table[student_id][Len(table[student_id])]

\* C15: a step that commits a new enrollment of a student (adds a row to the
\* student's embeddings) leaves no entry for the student in the cache, and
\* after every step an entry of the cache is the embedding of the student's
\* latest enrollment, never an earlier one.
C15_CacheInvalidatedOnEnrollment ==
    [][\A x \in Students :
          /\ Len(embeddings'[x]) > Len(embeddings[x]) => x \notin DOMAIN face_cache'
          /\ x \in DOMAIN face_cache' =>
                face_cache'[x] = LastRow(embeddings', x).embedding]_vars

\* x1 was enrolled again with another embedding while the cache was filled:
\* the enrollment has answered 200, x2 is still cached and x1 is not
C15_Witness ==
    /\ response = [op |-> "enroll", code |-> 200]
    /\ Len(embeddings["x1"]) = 2
    /\ embeddings["x1"][2].embedding # embeddings["x1"][1].embedding
    /\ "x2" \in DOMAIN face_cache
    /\ "x1" \notin DOMAIN face_cache

(***************************************************************************)
(* Similarity of an embedding with itself                                  *)
(***************************************************************************)
SelfCompared ==
    trial.op = "similarity" /\ trial.done /\ trial.embedding1 = trial.embedding2

\* C16 as stated: comparing an embedding with itself gives 1.0, for every
\* embedding, the all-zero vector included.
C16_SelfSimilarityIsOne == SelfCompared => trial.result = 1000

\* C16 as amended: comparing an embedding with itself gives 1.0, the greatest
\* similarity there is, for every embedding but the all-zero vector, for
\* which it gives 0.7 (the cosine term of a zero vector is taken to be 0).
C16_SelfSimilarity ==
    /\ trial.op = "similarity" /\ trial.done => trial.result \in 0..1000
    /\ SelfCompared =>
          trial.result = IF norm2(trial.embedding1) = 0 THEN 700 ELSE 1000

\* the all-zero vector was compared with itself and scored 0.7
C16_Witness ==
    /\ SelfCompared
    /\ trial.embedding1 = <<0, 0>>
    /\ trial.result = 700

(***************************************************************************)
(* Signaling hub claims                                                    *)
(***************************************************************************)
\* what the hub handled in this step, if the step handled a message
Received(type) == handled' # handled /\ handled'.msg.type = type

Reached(out) == {d.to : d \in out}

Membership(registry, c) == {r \in DOMAIN registry : c \in registry[r]}

\* a message sent to the room, not to a target, by a client whose link is open
RoomWide(m) ==
    /\ m.type \in {"answer", "ice-candidate"}
    /\ m.targetId = None

\* C17: a room broadcast is delivered to exactly the clients that are
\* members of the room when it is sent, minus the excluded client; the
\* members are read from the registry as the earlier joins and leaves left it.
C17_BroadcastReachesCurrentMembers ==
    [][(handled' # handled /\ RoomWide(handled'.msg)
            /\ links[handled'.msg.from] # "Closed")
        => /\ Reached(handled'.out)
               = (IF handled'.msg.roomId \in DOMAIN rooms
                  THEN rooms[handled'.msg.roomId] ELSE {}) \ {handled'.msg.from}
           /\ \A d \in handled'.out :
                  d.type = handled'.msg.type /\ d.from = handled'.msg.from]_vars

\* C17 witnesses: with r1 = {A}, after B has left, a broadcast from A
\* excluding A reaches no one; with r1 = {A, B, C} it reaches B and C.
C17_Witness ==
    /\ "B" \in clients /\ links["B"] # "Closed" /\ Membership(rooms, "B") = {}
    /\ "r1" \in DOMAIN rooms /\ rooms["r1"] = {"A"}
    /\ handled.msg.type = "ice-candidate" /\ handled.msg.from = "A"
    /\ handled.msg.targetId = None
    /\ handled.out = {}

\* C18: a candidate received in any link state but Closed (before any offer
\* too) is forwarded, to the target or to the room minus the sender, and
\* leaves the link states as they are.
C18_CandidateForwardedUnlessClosed ==
    [][(Received("ice-candidate") /\ links[handled'.msg.from] # "Closed")
        => /\ links' = links
           /\ \A d \in handled'.out :
                  d.type = "ice-candidate" /\ d.from = handled'.msg.from
           /\ Reached(handled'.out)
                = IF handled'.msg.targetId # None
                  THEN {handled'.msg.targetId} \cap clients
                  ELSE (IF handled'.msg.roomId \in DOMAIN rooms
                        THEN rooms[handled'.msg.roomId] ELSE {})
                           \ {handled'.msg.from}]_vars

\* C18 witness: a candidate of a client that never sent an offer reached
\* the other member of its room.
C18_Witness ==
    /\ handled.msg.type = "ice-candidate"
    /\ links[handled.msg.from] = "None"
    /\ handled.msg.targetId = None
    /\ handled.out # {}
    /\ \A d \in handled.out : d.type = "ice-candidate"

Malformed(m) ==
    \/ m.type \notin MessageTypes \cup {"close", "connect", "disconnect", "connected"}
    \/ m.type = "offer" /\ (m.sdp = None \/ m.sdp = "")

\* C19: a malformed or unknown-type message (an offer without an SDP or
\* with an empty one, a type outside the six) is answered with one error
\* to its sender and changes no membership and no link state.
C19_MalformedOnlyErrorsToSender ==
    [][(handled' # handled /\ Malformed(handled'.msg))
        => /\ handled'.out
                = {[to |-> handled'.msg.from, type |-> "error", from |-> "hub"]}
           /\ rooms' = rooms
           /\ links' = links
           /\ clients' = clients]_vars

\* C19 witness: an offer with an empty SDP from a member of a room whose
\* link is still unopened got the error.
C19_Witness ==
    /\ handled.msg.type = "offer" /\ handled.msg.sdp = ""
    /\ links[handled.msg.from] = "None"
    /\ Membership(rooms, handled.msg.from) # {}
    /\ handled.out = {[to |-> handled.msg.from, type |-> "error", from |-> "hub"]}

\* C20: closing is terminal and idempotent: after a close or a disconnect
\* the link is Closed and the client is in no room; a closed link stays
\* Closed and its client stays out of every room whatever is handled next;
\* a second close changes nothing.
C20_CloseTerminalIdempotent ==
    [][/\ \A c \in Clients :
              /\ links[c] = "Closed" => links'[c] = "Closed"
              /\ links'[c] = "Closed" => Membership(rooms', c) = {}
       /\ (handled' # handled /\ handled'.msg.type \in {"close", "disconnect"})
              => links'[handled'.msg.from] = "Closed"
       /\ (handled'.msg.type = "close" /\ links[handled'.msg.from] = "Closed")
              => <<clients, rooms, links>>' = <<clients, rooms, links>>]_vars

\* C20 witness: a client that was in a room with an answered link closed,
\* and its offer after the close was refused.
C20_Witness ==
    /\ handled.msg.type = "offer" /\ handled.msg.sdp = "v=0"
    /\ handled.msg.from \in clients
    /\ links[handled.msg.from] = "Closed"
    /\ handled.out = {[to |-> handled.msg.from, type |-> "error", from |-> "hub"]}
    /\ rooms # <<>>

(***************************************************************************)
(* Consumer loops                                                          *)
(***************************************************************************)
\* the outcome a step appends to processed, if it appends one
Outcome == processed'[Len(processed')]

Failed == Len(processed') = Len(processed) + 1 /\ Outcome.outcome = "error"

\* C21: a job that fails takes nothing with it: the step in which
\* process_adaptive_item raises leaves the queue (its jobs and their order),
\* the other running jobs and the records as they were, and the loop that
\* ran the job is back at get, so that the remaining jobs are dequeued.
C21_FailureIsolated ==
    [][Failed =>
          /\ queue' = queue
          /\ index' = index
          /\ running' = running \ {Outcome.entry}
          /\ records' = records
          /\ processed' = Append(processed, Outcome)
          /\ consumers' = consumers + 1]_vars

\* C21 witness: the only loop there is processed the job that failed, then
\* the next job, and a third job is still queued
C21_Witness ==
    /\ Len(processed) = 2
    /\ processed[1].outcome = "error" /\ processed[2].outcome = "done"
    /\ processed[1].entry # processed[2].entry
    /\ consumers + Cardinality(running) = 1
    /\ Len(queue) = 1

\* how many times job number i is in the queue, is running, was processed
InQueue(i) == Cardinality({k \in 1..Len(queue) : queue[k].index = i})

InRunning(i) == Cardinality({e \in running : e.index = i})

InProcessed(i) == Cardinality({k \in 1..Len(processed) : processed[k].entry.index = i})

WorkersAllowance ==
    IF sessions = <<>>
    THEN 4
    ELSE Min(4, get_processing_config(
                    phase_of_elapsed(now - sessions[1].start_time)).parallel_workers)

ElapsedAtCapture(entry) ==
    entry.item.capture_time - entry.item.session_data.start_time

\* C24: the phase of a queued job is the bucket of the session's elapsed
\* minutes at capture; a job captured ninety minutes or more into its
\* session is never queued with the priority of phase 0-10.
C24_PhaseFromElapsedTime ==
    \A q \in QueueEntries :
        ElapsedAtCapture(q) >= 90 => q.priority # processing_priority("0-10")

\* C25: every job the adaptive endpoint puts on the queue is eventually
\* dequeued and processed by some loop, whatever the outcome of the request
\* that put it there.
C25_EveryJobProcessed ==
    \A i \in 0..(MaxJobs - 1) : (InQueue(i) = 1) ~> (InProcessed(i) = 1)

(***************************************************************************)
(* Sessions                                                                *)
(***************************************************************************)
ActiveSessions(class_id) ==
    {s \in SessionIds : sessions[s].class_id = class_id /\ sessions[s].status = "active"}

\* C26: a class has at most one active session at any time, whatever the
\* sequence of start_class_session, create_enhanced_session and end_session
\* calls.
C26_OneActiveSessionPerClass ==
    \A c \in ClassIds : Cardinality(ActiveSessions(c)) <= 1

(***************************************************************************)
(* Enrollment                                                              *)
(***************************************************************************)
ActiveRows(table, student_id) ==
    {k \in 1..Len(table[student_id]) : table[student_id][k].is_active}

\* C27: after any sequence of enrollments every student has at most one
\* active stored embedding, and the active one, when there is one, is the
\* row of the student's latest enrollment.
C27_AtMostOneActiveEmbedding ==
    \A x \in Students :
        /\ Cardinality(ActiveRows(embeddings, x)) <= 1
        /\ ActiveRows(embeddings, x) \subseteq {Len(embeddings[x])}

\* C27 witness: x1 was enrolled twice after its first embedding; of its
\* three rows the last one alone is active
C27_Witness ==
    /\ Len(embeddings["x1"]) = 3
    /\ ActiveRows(embeddings, "x1") = {3}
    /\ response = [op |-> "enroll", code |-> 200]

\* an enrollment request that is answered with an error
FailedEnrollment ==
    /\ \E images \in EnrollUploads, student_id \in Students \cup {"x9"},
          insert_raises \in BOOLEAN :
          enroll_face_multiple_images(images, student_id, insert_raises)
    /\ response'.code # 200

\* C28: an enrollment that fails (no usable encoding, an unknown student,
\* a store error while saving) leaves the stored embeddings, the active one
\* of the student among them, and the embedding cache as they were.
C28_FailedEnrollmentChangesNothing ==
    [][FailedEnrollment =>
          /\ \A x \in Students :
                 \A k \in ActiveRows(embeddings, x) : k \in ActiveRows(embeddings', x)
          /\ face_cache' = face_cache]_vars

====
